---- MODULE Spec2Model ----
(***************************************************************************)
(* Model of src/app.py, the multi-question quiz video generator.           *)
(*                                                                         *)
(* The rendering pipeline is a collection of pure computations, so the     *)
(* module holds one specification per computation:                         *)
(*   SpecSeq     concatenate_videoclips and sampling of the merged timeline*)
(*   SpecLayout  the box geometry of make_quiz_clip                        *)
(*   SpecAnswer  the resolution of the answer box in make_quiz_clip        *)
(*   SpecBlink   the blink frames and the composite of make_quiz_clip      *)
(*   SpecFont    adjust_font_size                                          *)
(*   SpecWrap    break_word and draw_centered_wrapped_text                 *)
(*   SpecKey     remove_green                                              *)
(* Each specification draws its inputs in its Init and leaves the          *)
(* variables of the other computations at their idle values.               *)
(***************************************************************************)
EXTENDS Integers, Sequences, FiniteSets, TLC

VARIABLES
    \* concatenate_videoclips
    clips, new_clips, start, seq_pc, seq_result, seq_t, seq_hit,
    \* make_quiz_clip: the canvas (module globals) and the box geometry
    video_width, video_height, vertical_layout, lay_pc, lay_result,
    q_box_region, opt_a_box, opt_b_box, opt_c_box, opt_d_box,
    \* make_quiz_clip: the texts and the resolved answer
    opt_a_text, opt_b_text, opt_c_text, opt_d_text, answer_text,
    ans_pc, answer_box, label_text, option_text,
    \* make_quiz_clip: the blink frames and the composite clip
    blinking_frames, frame_num, blink_pc, layers, clip_t, shown, blink_t, blink_frame,
    \* adjust_font_size, called for a text A and for a text B
    max_size, region_width, region_height, bbox_a, bbox_b, font_pc, font_a, font_b,
    \* draw_centered_wrapped_text
    wrap_text, max_width, wrap_pc, words, lines,
    \* remove_green
    frame, key_pc, frame_rgba, rekeyed

seqVars == <<clips, new_clips, start, seq_pc, seq_result, seq_t, seq_hit>>
canvasVars == <<video_width, video_height, vertical_layout>>
boxVars == <<q_box_region, opt_a_box, opt_b_box, opt_c_box, opt_d_box>>
layVars == <<canvasVars, lay_pc, lay_result, boxVars>>

textVars == <<opt_a_text, opt_b_text, opt_c_text, opt_d_text, answer_text>>
ansVars == <<textVars, ans_pc, answer_box, label_text, option_text>>

blinkVars == <<blinking_frames, frame_num, blink_pc, layers, clip_t, shown, blink_t, blink_frame>>

fontVars == <<max_size, region_width, region_height, bbox_a, bbox_b, font_pc, font_a, font_b>>

wrapVars == <<wrap_text, max_width, wrap_pc, words, lines>>
keyVars == <<frame, key_pc, frame_rgba, rekeyed>>

vars == <<seqVars, layVars, ansVars, blinkVars, fontVars, wrapVars, keyVars>>

\* the variables an action of one computation leaves alone
notSeq == <<layVars, ansVars, blinkVars, fontVars, wrapVars, keyVars>>
notClip == <<seqVars, fontVars, wrapVars, keyVars>>
notFont == <<seqVars, layVars, ansVars, blinkVars, wrapVars, keyVars>>
notWrap == <<seqVars, layVars, ansVars, blinkVars, fontVars, keyVars>>
notKey == <<seqVars, layVars, ansVars, blinkVars, fontVars, wrapVars>>

----------------------------------------------------------------------------
(* Generic helpers *)

\* all sequences over S of length at most n
SeqsUpTo(S, n) == UNION {[1..k -> S] : k \in 0..n}

\* a layer of a composite plays at t iff start <= t < end
is_playing(clip, t) == clip.start <= t /\ t < clip.end

----------------------------------------------------------------------------
(* The idle values of each computation's variables *)

\* a box is <<left, top, right, bottom>>
NoBox == <<0, 0, 0, 0>>

\* the canvases of the two ratio choices of the main block (src/app.py:451-458)
WideCanvas == <<1280, 720>>
TallCanvas == <<720, 1280>>

IdleSeq ==
    /\ clips = <<>>
    /\ new_clips = <<>>
    /\ start = 0
    /\ seq_pc = "idle"
    /\ seq_result = "none"
    /\ seq_t = -1
    /\ seq_hit = {}

IdleLay ==
    /\ video_width = WideCanvas[1]
    /\ video_height = WideCanvas[2]
    /\ vertical_layout = FALSE
    /\ lay_pc = "idle"
    /\ lay_result = "none"
    /\ q_box_region = NoBox
    /\ opt_a_box = NoBox
    /\ opt_b_box = NoBox
    /\ opt_c_box = NoBox
    /\ opt_d_box = NoBox

\* Python's None, where a box is expected
None == <<>>

IdleAns ==
    /\ opt_a_text = <<>>
    /\ opt_b_text = <<>>
    /\ opt_c_text = <<>>
    /\ opt_d_text = <<>>
    /\ answer_text = <<>>
    /\ ans_pc = "idle"
    /\ answer_box = None
    /\ label_text = <<>>
    /\ option_text = <<>>

\* Image.new("RGBA", ..., (0, 0, 0, 0)) with nothing drawn on it
Transparent == [on |-> FALSE, box |-> None, label |-> <<>>, text |-> <<>>]

IdleBlink ==
    /\ blinking_frames = <<>>
    /\ frame_num = 0
    /\ blink_pc = "idle"
    /\ layers = <<>>
    /\ clip_t = -1
    /\ shown = <<>>
    /\ blink_t = -1
    /\ blink_frame = Transparent

IdleFont ==
    /\ max_size = 0
    /\ region_width = 0
    /\ region_height = 0
    /\ bbox_a = <<>>
    /\ bbox_b = <<>>
    /\ font_pc = "idle"
    /\ font_a = 0
    /\ font_b = 0

IdleWrap ==
    /\ wrap_text = <<>>
    /\ max_width = 0
    /\ wrap_pc = "idle"
    /\ words = <<>>
    /\ lines = <<>>

IdleKey ==
    /\ frame = <<>>
    /\ key_pc = "idle"
    /\ frame_rgba = <<>>
    /\ rekeyed = <<>>

----------------------------------------------------------------------------
(* make_quiz_clip: box geometry, src/app.py:237-280 *)

timer_top_padding == 20
timer_height == 100
\* the gap between the timer and the question box
timer_gap == 20
margin_wide == 50
margin_tall == 40
q_box_height_wide == 120
q_box_height_tall == 150
opt_height == 60
\* the gap between the question box and the first option row, and between
\* the two option rows of the 16:9 layout
opt_row_gap == 30
opt_spacing == 25

\* q_box_top = timer_top_padding + timer_height + 20
q_box_top == timer_top_padding + timer_height + timer_gap

\* opt_width = (video_width - (3 * margin)) // 2
OptWidthWide(w) == (w - (3 * margin_wide)) \div 2

\* opt_top_row_y = q_box_top + q_box_height + 30
OptTopRowY == q_box_top + q_box_height_wide + opt_row_gap

\* opt_bottom_row_y = opt_top_row_y + opt_height + 30
OptBottomRowYOverlapping(top) == top + opt_row_gap
OptBottomRowY(top) == top + opt_height + opt_row_gap

\* the 16:9 layout: the question box over a 2x2 grid of option boxes
LayoutWide(w) ==
    LET margin == margin_wide
        opt_width == OptWidthWide(w)
        opt_top_row_y == OptTopRowY
        opt_bottom_row_y == OptBottomRowY(opt_top_row_y)
    IN  [q |-> <<margin, q_box_top, w - margin, q_box_top + q_box_height_wide>>,
         a |-> <<margin, opt_top_row_y, margin + opt_width, opt_top_row_y + opt_height>>,
         b |-> <<w - margin - opt_width, opt_top_row_y, w - margin, opt_top_row_y + opt_height>>,
         c |-> <<margin, opt_bottom_row_y, margin + opt_width, opt_bottom_row_y + opt_height>>,
         d |-> <<w - margin - opt_width, opt_bottom_row_y, w - margin, opt_bottom_row_y + opt_height>>]

\* the top of a stacked option box: the bottom of the box above + opt_spacing
StackedTop(prev) == prev[4] + opt_spacing

\* the 9:16 layout: the question box over four stacked option boxes
LayoutTall(w) ==
    LET margin == margin_tall
        a_top == q_box_top + q_box_height_tall + opt_row_gap
        a == <<margin, a_top, w - margin, a_top + opt_height>>
        b == <<margin, StackedTop(a), w - margin, StackedTop(a) + opt_height>>
        c == <<margin, StackedTop(b), w - margin, StackedTop(b) + opt_height>>
        d == <<margin, StackedTop(c), w - margin, StackedTop(c) + opt_height>>
    IN  [q |-> <<margin, q_box_top, w - margin, q_box_top + q_box_height_tall>>,
         a |-> a, b |-> b, c |-> c, d |-> d]

\* if not vertical_layout: ... else: ...  (the canvas height is never read)
Layout(w, vertical) == IF ~vertical THEN LayoutWide(w) ELSE LayoutTall(w)

\* the least canvas on which every box has positive width and every box row
\* is on the canvas: the extent of the layout
MinWidth(vertical) == IF vertical THEN 2 * margin_tall + 1 ELSE 3 * margin_wide + 2
MinHeight(vertical) ==
    IF vertical
       THEN q_box_top + q_box_height_tall + opt_row_gap + 4 * opt_height + 3 * opt_spacing + 1
       ELSE q_box_top + q_box_height_wide + opt_row_gap + 2 * opt_height + opt_row_gap + 1

\* canvases tried around the least canvas, besides the two of the main block
CanvasSlack == 3

CanvasWidths(vertical) ==
    {WideCanvas[1], TallCanvas[1]}
        \cup ((MinWidth(vertical) - CanvasSlack)..(MinWidth(vertical) + CanvasSlack))
CanvasHeights(vertical) ==
    {WideCanvas[2], TallCanvas[2]}
        \cup ((MinHeight(vertical) - CanvasSlack)..(MinHeight(vertical) + CanvasSlack))

InitLayout ==
    /\ IdleSeq
    /\ IdleAns
    /\ IdleBlink
    /\ IdleFont
    /\ IdleWrap
    /\ IdleKey
    /\ vertical_layout \in BOOLEAN
    /\ video_width \in CanvasWidths(vertical_layout)
    /\ video_height \in CanvasHeights(vertical_layout)
    /\ lay_pc = "start"
    /\ lay_result = "none"
    /\ q_box_region = NoBox
    /\ opt_a_box = NoBox
    /\ opt_b_box = NoBox
    /\ opt_c_box = NoBox
    /\ opt_d_box = NoBox

\* the geometry block of make_quiz_clip: no size of canvas is refused
ComputeLayout ==
    /\ lay_pc = "start"
    /\ LET l == Layout(video_width, vertical_layout) IN
        /\ q_box_region' = l.q
        /\ opt_a_box' = l.a
        /\ opt_b_box' = l.b
        /\ opt_c_box' = l.c
        /\ opt_d_box' = l.d
    /\ lay_pc' = "done"
    /\ lay_result' = "boxes"
    /\ UNCHANGED <<canvasVars, ansVars, blinkVars, notClip>>

NextLayout == ComputeLayout

SpecLayout == InitLayout /\ [][NextLayout]_vars

----------------------------------------------------------------------------
(* Claims on the box geometry *)

\* a box covers the pixels left..right by top..bottom
WellFormed(b) == b[3] > b[1] /\ b[4] > b[2]
InsideCanvas(b, w, h) == 0 <= b[1] /\ 0 <= b[2] /\ b[3] <= w - 1 /\ b[4] <= h - 1
Disjoint(b1, b2) == b1[3] < b2[1] \/ b2[3] < b1[1] \/ b1[4] < b2[2] \/ b2[4] < b1[2]

FiveBoxes == <<q_box_region, opt_a_box, opt_b_box, opt_c_box, opt_d_box>>

CanvasFits ==
    /\ video_width >= MinWidth(vertical_layout)
    /\ video_height >= MinHeight(vertical_layout)

\* C5: on the two canvases of the main block, and on every canvas at least as
\* large as the extent of the layout, the question box and the four option
\* boxes have right > left and bottom > top, lie inside the canvas and are
\* pairwise disjoint.
C5_BoxesInsideAndDisjoint ==
    (lay_pc = "done" /\ CanvasFits) =>
        /\ \A i \in 1..5 :
              /\ WellFormed(FiveBoxes[i])
              /\ InsideCanvas(FiveBoxes[i], video_width, video_height)
        /\ \A i, j \in 1..5 : i # j => Disjoint(FiveBoxes[i], FiveBoxes[j])

\* the 9:16 canvas of the main block, laid out
C5_Witness ==
    /\ lay_pc = "done"
    /\ vertical_layout
    /\ <<video_width, video_height>> = TallCanvas
    /\ q_box_region = <<40, 140, 680, 290>>
    /\ opt_d_box = <<40, 575, 680, 635>>

\* C7: a canvas too small for the layout of its orientation is refused with
\* InvalidGeometry, and no boxes are returned for it.
C7_SmallCanvasRejected ==
    (lay_pc = "done" /\ ~CanvasFits) => lay_result = "InvalidGeometry"

----------------------------------------------------------------------------
(* make_quiz_clip: the answer box, src/app.py:364-374 and 395-428 *)

\* a text is a sequence of one-character strings

\* str.lower() on the characters of the model's alphabet
LowerChar(ch) ==
    CASE ch = "A" -> "a"
      [] ch = "B" -> "b"
      [] ch = "C" -> "c"
      [] ch = "D" -> "d"
      [] OTHER -> ch

Lower(s) == [i \in 1..Len(s) |-> LowerChar(s[i])]

IsSpace(ch) == ch = " "

RECURSIVE LStrip(_)
LStrip(s) == IF s # <<>> /\ IsSpace(s[1]) THEN LStrip(Tail(s)) ELSE s

RECURSIVE RStrip(_)
RStrip(s) ==
    IF s # <<>> /\ IsSpace(s[Len(s)]) THEN RStrip(SubSeq(s, 1, Len(s) - 1)) ELSE s

\* str.strip()
Strip(s) == RStrip(LStrip(s))

\* s.startswith(p)
StartsWith(s, p) == Len(s) >= Len(p) /\ SubSeq(s, 1, Len(p)) = p

\* sub in s
Contains(s, sub) ==
    \E i \in 1..(Len(s) - Len(sub) + 1) : SubSeq(s, i, i + Len(sub) - 1) = sub

\* s[n:]
DropFirst(s, n) == IF Len(s) <= n THEN <<>> ELSE SubSeq(s, n + 1, Len(s))

\* "x)" in answer_lower or answer_lower.startswith("x")
Names(answer_lower, x) ==
    Contains(answer_lower, <<x, ")">>) \/ StartsWith(answer_lower, <<x>>)

\* the if / elif chain over the options a, b, c, d in this order
ResolveAnswerBox(answer_lower, a, b, c, d) ==
    IF Names(answer_lower, "a") THEN a
    ELSE IF Names(answer_lower, "b") THEN b
    ELSE IF Names(answer_lower, "c") THEN c
    ELSE IF Names(answer_lower, "d") THEN d
    ELSE None

\* the label drawn back on the highlight
LabelOf(box, a, b, c, d) ==
    IF box = a THEN <<"A", ":">>
    ELSE IF box = b THEN <<"B", ":">>
    ELSE IF box = c THEN <<"C", ":">>
    ELSE IF box = d THEN <<"D", ":">>
    ELSE <<>>

\* opt_x_text[2:] if opt_x_text.startswith("x)") else opt_x_text
OptionBody(text, x) == IF StartsWith(text, <<x, ")">>) THEN DropFirst(text, 2) ELSE text

\* the option text drawn back on the highlight
OptionTextOf(box, a, b, c, d) ==
    IF box = a THEN OptionBody(opt_a_text, "a")
    ELSE IF box = b THEN OptionBody(opt_b_text, "b")
    ELSE IF box = c THEN OptionBody(opt_c_text, "c")
    ELSE IF box = d THEN OptionBody(opt_d_text, "d")
    ELSE <<>>

\* longest answer text tried
MaxAnswerLen == 4

AnswerAlphabet == {"a", "b", "c", "d", "B", ")", " "}

\* the option lines, with and without their markers
OptionTexts(x, body) == <<(<<x, ")", " ", body>>), (<<x, ")", body>>), (<<body>>)>>

InitTexts ==
    \E k \in 1..3 :
        /\ opt_a_text = OptionTexts("a", "1")[k]
        /\ opt_b_text = OptionTexts("b", "2")[k]
        /\ opt_c_text = OptionTexts("c", "3")[k]
        /\ opt_d_text = OptionTexts("d", "4")[k]

InitAnswer ==
    /\ IdleSeq
    /\ IdleBlink
    /\ IdleFont
    /\ IdleWrap
    /\ IdleKey
    /\ vertical_layout \in BOOLEAN
    /\ video_width = IF vertical_layout THEN TallCanvas[1] ELSE WideCanvas[1]
    /\ video_height = IF vertical_layout THEN TallCanvas[2] ELSE WideCanvas[2]
    /\ lay_pc = "start"
    /\ lay_result = "none"
    /\ q_box_region = NoBox
    /\ opt_a_box = NoBox
    /\ opt_b_box = NoBox
    /\ opt_c_box = NoBox
    /\ opt_d_box = NoBox
    /\ InitTexts
    /\ answer_text \in SeqsUpTo(AnswerAlphabet, MaxAnswerLen)
    /\ ans_pc = "start"
    /\ answer_box = None
    /\ label_text = <<>>
    /\ option_text = <<>>

\* answer_lower = answer_text.lower().strip(); the if / elif chain; the label
\* and the option text chosen by comparing answer_box with the option boxes
ResolveAnswer ==
    /\ lay_pc = "done"
    /\ ans_pc = "start"
    /\ LET answer_lower == Strip(Lower(answer_text))
           box == ResolveAnswerBox(answer_lower, opt_a_box, opt_b_box, opt_c_box, opt_d_box)
       IN  /\ answer_box' = box
           /\ label_text' = LabelOf(box, opt_a_box, opt_b_box, opt_c_box, opt_d_box)
           /\ option_text' = OptionTextOf(box, opt_a_box, opt_b_box, opt_c_box, opt_d_box)
    /\ ans_pc' = "done"
    /\ UNCHANGED <<layVars, textVars, blinkVars, notClip>>

NextAnswer == ComputeLayout \/ ResolveAnswer

SpecAnswer == InitAnswer /\ [][NextAnswer]_vars

----------------------------------------------------------------------------
(* Claims on the answer box *)

\* the leading marker of the answer: its first two characters, once trimmed
\* and lower-cased, when they are x) with x one of a, b, c, d
Marker ==
    LET s == Strip(Lower(answer_text)) IN
    IF Len(s) >= 2 /\ s[1] \in {"a", "b", "c", "d"} /\ s[2] = ")" THEN s[1] ELSE "none"

MarkedBox(x) ==
    CASE x = "a" -> opt_a_box [] x = "b" -> opt_b_box
      [] x = "c" -> opt_c_box [] x = "d" -> opt_d_box

MarkedLabel(x) ==
    CASE x = "a" -> <<"A", ":">> [] x = "b" -> <<"B", ":">>
      [] x = "c" -> <<"C", ":">> [] x = "d" -> <<"D", ":">>

MarkedText(x) ==
    CASE x = "a" -> opt_a_text [] x = "b" -> opt_b_text
      [] x = "c" -> opt_c_text [] x = "d" -> opt_d_text

\* C2: for every answer text whose leading marker is x), whatever follows the
\* marker, the resolved answer_box is option x's box and the label and the
\* option text drawn back on the highlight are those of option x.
C2_HighlightOnMarkedOption ==
    (ans_pc = "done" /\ Marker # "none") =>
        /\ answer_box = MarkedBox(Marker)
        /\ label_text = MarkedLabel(Marker)
        /\ option_text = OptionBody(MarkedText(Marker), Marker)

----------------------------------------------------------------------------
(* make_quiz_clip: the blink frames and the composite, src/app.py:334-337, *)
(* 355 and 376-443                                                          *)

\* time is counted in ticks of 1/600 s, so that the frame times k/24 s and
\* the hundredths of a second of 11.56 s are both whole numbers of ticks
TicksPerSecond == 24 * 25

\* with_duration(13), in seconds
clip_duration == 13
\* with_duration(11.56), in hundredths of a second
timer_duration_cs == 1156
\* with_start(10), in seconds
blink_start == 10
blink_duration == 3
fps == 24
blink_period == 8

\* blink_frames = blink_duration * fps
blink_frames == blink_duration * fps

\* frame_num % blink_period < blink_period // 2
BlinkOnAlways(n) == n % blink_period < blink_period
BlinkOn(n) == n % blink_period < blink_period \div 2

\* the overlay of one frame number: the highlight with the label and the
\* option text drawn back on it, or nothing
BlinkImage(n, box, label, text) ==
    IF box # None /\ BlinkOn(n)
       THEN [on |-> TRUE, box |-> box, label |-> label, text |-> text]
       ELSE Transparent

\* frame_idx = int(t * fps) % len(blinking_frames), t in ticks
FrameIdx(t, frames) == ((t * fps) \div TicksPerSecond) % Len(frames)

\* make_blink_frame(t)
make_blink_frame(t, frames) == frames[FrameIdx(t, frames) + 1]

\* a layer: its name, its start and its end in ticks
Layer(name, s, d) == [name |-> name, start |-> s, end |-> s + d]

\* CompositeVideoClip([base_clip, timer_clip, blink_clip]): the base clip of
\* 13 s, the timer clip of 11.56 s and the blink clip of 3 s started at 10 s
QuizLayersBlinkFromZero ==
    <<Layer("base", 0, clip_duration * TicksPerSecond),
      Layer("timer", 0, (timer_duration_cs * TicksPerSecond) \div 100),
      Layer("blink", 0, blink_duration * TicksPerSecond)>>
QuizLayers ==
    <<Layer("base", 0, clip_duration * TicksPerSecond),
      Layer("timer", 0, (timer_duration_cs * TicksPerSecond) \div 100),
      Layer("blink", blink_start * TicksPerSecond, blink_duration * TicksPerSecond)>>

\* the layers playing at t, in layer order, each with its local time
RECURSIVE Playing(_, _)
Playing(ls, t) ==
    IF ls = <<>> THEN <<>>
    ELSE IF is_playing(ls[1], t)
            THEN <<(<<ls[1].name, t - ls[1].start>>)>> \o Playing(Tail(ls), t)
            ELSE Playing(Tail(ls), t)

\* the local time of the blink layer among the playing layers, or -1
RECURSIVE BlinkLocal(_)
BlinkLocal(p) ==
    IF p = <<>> THEN -1
    ELSE IF p[1][1] = "blink" THEN p[1][2] ELSE BlinkLocal(Tail(p))

\* answers whose clips are built and sampled: one per option, one that names
\* no option, one whose text names another option after the marker
BlinkAnswers ==
    {<<"a", ")">>, <<"B", ")", " ", "b">>, <<"c">>, <<" ", "d", ")">>,
     <<")", " ", ")">>, <<"d", ")", "a", ")">>}

\* seconds of local time over which make_blink_frame is sampled on its own
MaxBlinkSeconds == 4

InitBlink ==
    /\ IdleSeq
    /\ IdleFont
    /\ IdleWrap
    /\ IdleKey
    /\ vertical_layout \in BOOLEAN
    /\ video_width = IF vertical_layout THEN TallCanvas[1] ELSE WideCanvas[1]
    /\ video_height = IF vertical_layout THEN TallCanvas[2] ELSE WideCanvas[2]
    /\ lay_pc = "start"
    /\ lay_result = "none"
    /\ q_box_region = NoBox
    /\ opt_a_box = NoBox
    /\ opt_b_box = NoBox
    /\ opt_c_box = NoBox
    /\ opt_d_box = NoBox
    /\ opt_a_text = OptionTexts("a", "1")[1]
    /\ opt_b_text = OptionTexts("b", "2")[1]
    /\ opt_c_text = OptionTexts("c", "3")[1]
    /\ opt_d_text = OptionTexts("d", "4")[1]
    /\ answer_text \in BlinkAnswers
    /\ ans_pc = "start"
    /\ answer_box = None
    /\ label_text = <<>>
    /\ option_text = <<>>
    /\ blinking_frames = <<>>
    /\ frame_num = 0
    /\ blink_pc = "frames"
    /\ layers = <<>>
    /\ clip_t = -1
    /\ shown = <<>>
    /\ blink_t = -1
    /\ blink_frame = Transparent

\* one iteration of `for frame_num in range(blink_frames)`
BuildBlinkFrame ==
    /\ ans_pc = "done"
    /\ blink_pc = "frames"
    /\ frame_num < blink_frames
    /\ blinking_frames' =
          Append(blinking_frames, BlinkImage(frame_num, answer_box, label_text, option_text))
    /\ frame_num' = frame_num + 1
    /\ UNCHANGED <<notClip, layVars, ansVars, blink_pc, layers, clip_t, shown, blink_t, blink_frame>>

\* blink_clip, final_clip = CompositeVideoClip([...]).with_duration(13)
CompositeClip ==
    /\ ans_pc = "done"
    /\ blink_pc = "frames"
    /\ frame_num = blink_frames
    /\ layers' = QuizLayers
    /\ blink_pc' = "clip"
    /\ UNCHANGED <<notClip, layVars, ansVars, blinking_frames, frame_num, clip_t, shown, blink_t, blink_frame>>

\* the quiz clip sampled at a time t of [0, 13 s): the playing layers, and the
\* blink frame when the blink layer plays
SampleClip ==
    /\ blink_pc = "clip"
    /\ \E t \in 0..(clip_duration * TicksPerSecond - 1) :
        LET p == Playing(layers, t)
            local == BlinkLocal(p)
        IN  /\ clip_t' = t
            /\ shown' = p
            /\ blink_t' = local
            /\ blink_frame' = IF local >= 0 THEN make_blink_frame(local, blinking_frames)
                                            ELSE Transparent
    /\ blink_pc' = "sampled"
    /\ UNCHANGED <<notClip, layVars, ansVars, blinking_frames, frame_num, layers>>

\* make_blink_frame called on its own at a local time t
SampleBlink ==
    /\ blink_pc = "clip"
    /\ \E t \in 0..(MaxBlinkSeconds * TicksPerSecond - 1) :
        /\ blink_t' = t
        /\ blink_frame' = make_blink_frame(t, blinking_frames)
    /\ blink_pc' = "framed"
    /\ UNCHANGED <<notClip, layVars, ansVars, blinking_frames, frame_num, layers, clip_t, shown>>

NextBlink ==
    \/ ComputeLayout
    \/ ResolveAnswer
    \/ BuildBlinkFrame
    \/ CompositeClip
    \/ SampleClip
    \/ SampleBlink

SpecBlink == InitBlink /\ [][NextBlink]_vars

----------------------------------------------------------------------------
(* Claims on the blink frames and the composite *)

\* the layers a frame at t shows, by the windows [0,13), [0,11.56), [10,13) s
ExpectedShown(t) ==
    (IF 0 <= t /\ t < 7800 THEN <<(<<"base", t>>)>> ELSE <<>>)
    \o (IF 0 <= t /\ t < 6936 THEN <<(<<"timer", t>>)>> ELSE <<>>)
    \o (IF 6000 <= t /\ t < 7800 THEN <<(<<"blink", t - 6000>>)>> ELSE <<>>)

\* C3: in a quiz clip a layer with (start, duration) contributes to the frame
\* at t iff start <= t < start + duration: the background on [0, 13 s), the
\* countdown on [0, 11.56 s), the blink layer on [10 s, 13 s) at local time
\* t - 10 s, stacked in the order background, countdown, highlight; the
\* highlight shows when the blink frame of that local time is on.
C3_LayerWindows ==
    /\ blink_pc \in {"clip", "sampled", "framed"} =>
          /\ Len(layers) = 3
          /\ \A i \in 1..3 : layers[i].name = <<"base", "timer", "blink">>[i]
    /\ blink_pc = "sampled" =>
          /\ shown = ExpectedShown(clip_t)
          /\ \A i \in 1..Len(shown) :
                \E j \in 1..3 :
                    /\ layers[j].name = shown[i][1]
                    /\ layers[j].start <= clip_t /\ clip_t < layers[j].end
                    /\ shown[i][2] = clip_t - layers[j].start
          /\ clip_t < 6000 => blink_frame = Transparent
          /\ (clip_t >= 6000 /\ answer_box # None) =>
                (blink_frame.on <=> (((clip_t - 6000) * 24) \div 600) % 8 < 4)

\* t = 11 s: background, countdown and the highlight of frame 24, which is on
C3_Witness ==
    /\ blink_pc = "sampled"
    /\ clip_t = 6600
    /\ shown = <<(<<"base", 6600>>), (<<"timer", 6600>>), (<<"blink", 600>>)>>
    /\ answer_box # None
    /\ blink_frame.on

\* t = 9.9 s: background and countdown only
C3_WitnessBefore ==
    /\ blink_pc = "sampled"
    /\ clip_t = 5940
    /\ shown = <<(<<"base", 5940>>), (<<"timer", 5940>>)>>

\* C4: the blink sequence of a resolved answer box has 72 frames; frame i is
\* on (the highlight over the answer box) iff i mod 8 < 4 and fully
\* transparent otherwise; the frame returned for local time t is frame
\* floor(t * 24) mod 72, the same at every query of that t.
C4_BlinkSequence ==
    (blink_pc \in {"clip", "sampled", "framed"} /\ answer_box # None) =>
        /\ Len(blinking_frames) = 72
        /\ \A i \in 0..71 :
              /\ blinking_frames[i + 1].on <=> (i % 8 < 4)
              /\ blinking_frames[i + 1].on => blinking_frames[i + 1].box = answer_box
              /\ ~blinking_frames[i + 1].on => blinking_frames[i + 1] = Transparent
        /\ blink_t >= 0 =>
              blink_frame = blinking_frames[(((blink_t * 24) \div 600) % 72) + 1]

\* local time 3.25 s of a resolved answer: frame 78 mod 72 = 6, which is off
C4_Witness ==
    /\ blink_pc = "framed"
    /\ answer_box # None
    /\ blink_t = 1950
    /\ blink_frame = Transparent
    /\ blinking_frames[1].on /\ blinking_frames[4].on
    /\ ~blinking_frames[5].on /\ ~blinking_frames[8].on /\ blinking_frames[9].on

----------------------------------------------------------------------------
(* adjust_font_size, src/app.py:136-146 *)

\* while font_size > 5
floor_size == 5

\* largest max_size tried
MaxFontSize == 8

\* the bounding box <<text_w, text_h>> of a text at a font size is the font
\* resource's answer: any box of this set, at each size on its own
BBoxes == {<<1, 1>>, <<2, 1>>, <<1, 2>>}

\* the sizes at which adjust_font_size measures a text
MeasuredSizes == (floor_size + 1)..MaxFontSize

\* text_w <= region_width and text_h <= region_height
FitsWidthOnly(bbox, rw, rh) == bbox[1] <= rw
FitsRegion(bbox, rw, rh) == bbox[1] <= rw /\ bbox[2] <= rh

\* the while loop from font_size down: the first size whose box fits, or the
\* size at which the loop ends
RECURSIVE AdjustFrom(_, _, _, _)
AdjustFrom(font_size, bbox, rw, rh) ==
    IF font_size > floor_size
       THEN IF FitsRegion(bbox[font_size], rw, rh)
               THEN font_size
               ELSE AdjustFrom(font_size - 1, bbox, rw, rh)
       ELSE font_size

\* adjust_font_size(text, font_path, max_size, region_width, region_height):
\* the size of the font returned; bbox is the text's box at each size
adjust_font_size(bbox, max, rw, rh) == AdjustFrom(max, bbox, rw, rh)

InitFont ==
    /\ IdleSeq
    /\ IdleLay
    /\ IdleAns
    /\ IdleBlink
    /\ IdleWrap
    /\ IdleKey
    /\ max_size \in (floor_size - 1)..MaxFontSize
    /\ region_width \in 1..2
    /\ region_height \in 1..2
    /\ bbox_a \in [MeasuredSizes -> BBoxes]
    /\ bbox_b \in [MeasuredSizes -> BBoxes]
    /\ font_pc = "start"
    /\ font_a = 0
    /\ font_b = 0

\* adjust_font_size called for text A and for text B with the same max_size
\* and region
AdjustFonts ==
    /\ font_pc = "start"
    /\ font_a' = adjust_font_size(bbox_a, max_size, region_width, region_height)
    /\ font_b' = adjust_font_size(bbox_b, max_size, region_width, region_height)
    /\ font_pc' = "done"
    /\ UNCHANGED <<max_size, region_width, region_height, bbox_a, bbox_b, notFont>>

NextFont == AdjustFonts

SpecFont == InitFont /\ [][NextFont]_vars

----------------------------------------------------------------------------
(* Claims on adjust_font_size *)

\* the sizes s with 5 < s <= max_size at which the box fits the region
FittingSizes(bbox) ==
    {s \in 6..max_size : bbox[s][1] <= region_width /\ bbox[s][2] <= region_height}

LargestOr5(S) == IF S = {} THEN 5 ELSE CHOOSE s \in S : \A u \in S : u <= s

\* text A's box is at least text B's at every size
BoxAtLeast(a, b) ==
    \A s \in DOMAIN a : a[s][1] >= b[s][1] /\ a[s][2] >= b[s][2]

\* C8: for max_size >= 5, adjust_font_size returns the largest size s with
\* 5 < s <= max_size at which the unwrapped text's box fits the width and the
\* height of the region, and 5 when there is none; so a text whose box is at
\* least another's at every size gets a size that is no larger.
C8_LargestFittingSize ==
    (font_pc = "done" /\ max_size >= 5) =>
        /\ font_a = LargestOr5(FittingSizes(bbox_a))
        /\ font_b = LargestOr5(FittingSizes(bbox_b))
        /\ BoxAtLeast(bbox_a, bbox_b) => font_a <= font_b

\* text A fits at 7 but not at 8, where the smaller text B fits
C8_Witness ==
    /\ font_pc = "done"
    /\ max_size = 8
    /\ BoxAtLeast(bbox_a, bbox_b)
    /\ font_a = 7
    /\ font_b = 8

\* a text that fits at no size gets the floor size
C8_WitnessFloor ==
    /\ font_pc = "done"
    /\ max_size = 8
    /\ FittingSizes(bbox_a) = {}
    /\ font_a = 5

----------------------------------------------------------------------------
(* break_word and draw_centered_wrapped_text, src/app.py:71-118 *)

\* longest text wrapped
MaxTextLen == 6

\* widest region tried
MaxRegionWidth == 4

\* the characters of the wrapped texts: a narrow one, a wide one, the space
WrapAlphabet == {"i", "m", " "}

\* the font resource's advance of one character
CharWidth(ch) == IF ch = "m" THEN 2 ELSE 1

\* font.getbbox(s)[2] - font.getbbox(s)[0]
RECURSIVE TextWidth(_)
TextWidth(s) == IF s = <<>> THEN 0 ELSE CharWidth(s[1]) + TextWidth(Tail(s))

\* text.split(): the maximal runs of characters that are not whitespace
RECURSIVE SplitFrom(_, _, _, _)
SplitFrom(s, i, out, cur) ==
    IF i > Len(s) THEN (IF cur # <<>> THEN Append(out, cur) ELSE out)
    ELSE IF IsSpace(s[i])
            THEN SplitFrom(s, i + 1, IF cur # <<>> THEN Append(out, cur) ELSE out, <<>>)
            ELSE SplitFrom(s, i + 1, out, Append(cur, s[i]))

Split(s) == SplitFrom(s, 1, <<>>, <<>>)

\* current_segment = char
StartSegmentEmpty(ch) == <<>>
StartSegment(ch) == <<ch>>

\* if width <= max_width, width the width of test_segment
SegmentFitsStrictly(test_segment, mw) == TextWidth(test_segment) < mw
SegmentFits(test_segment, mw) == TextWidth(test_segment) <= mw

\* the loop of break_word from character i on
RECURSIVE BreakFrom(_, _, _, _, _)
BreakFrom(word, i, segments, current_segment, mw) ==
    IF i > Len(word)
       THEN (IF current_segment # <<>> THEN Append(segments, current_segment) ELSE segments)
       ELSE LET test_segment == Append(current_segment, word[i]) IN
            IF SegmentFits(test_segment, mw)
               THEN BreakFrom(word, i + 1, segments, test_segment, mw)
               ELSE BreakFrom(word, i + 1,
                              IF current_segment # <<>>
                                 THEN Append(segments, current_segment)
                                 ELSE segments,
                              StartSegment(word[i]), mw)

\* break_word(word, font, max_width)
break_word(word, mw) == BreakFrom(word, 1, <<>>, <<>>, mw)

\* the first loop of draw_centered_wrapped_text: the words of the text, a
\* word wider than the region replaced by its segments
RECURSIVE WrapWords(_, _)
WrapWords(ws, mw) ==
    IF ws = <<>> THEN <<>>
    ELSE (IF TextWidth(ws[1]) > mw THEN break_word(ws[1], mw) ELSE <<ws[1]>>)
         \o WrapWords(Tail(ws), mw)

\* a line is closed when the next word does not fit: lines.append(current_line)
CloseLineDropped(ls, current_line) == ls
CloseLine(ls, current_line) == IF current_line # <<>> THEN Append(ls, current_line) ELSE ls

\* the second loop of draw_centered_wrapped_text from word i on
RECURSIVE WrapLinesFrom(_, _, _, _, _)
WrapLinesFrom(ws, i, ls, current_line, mw) ==
    IF i > Len(ws)
       THEN (IF current_line # <<>> THEN Append(ls, current_line) ELSE ls)
       ELSE LET test_line == current_line \o (IF current_line # <<>> THEN <<" ">> ELSE <<>>) \o ws[i] IN
            IF TextWidth(test_line) <= mw
               THEN WrapLinesFrom(ws, i + 1, ls, test_line, mw)
               ELSE WrapLinesFrom(ws, i + 1, CloseLine(ls, current_line), ws[i], mw)

WrapLines(ws, mw) == WrapLinesFrom(ws, 1, <<>>, <<>>, mw)

InitWrap ==
    /\ IdleSeq
    /\ IdleLay
    /\ IdleAns
    /\ IdleBlink
    /\ IdleFont
    /\ IdleKey
    /\ wrap_text \in SeqsUpTo(WrapAlphabet, MaxTextLen)
    /\ max_width \in 0..MaxRegionWidth
    /\ wrap_pc = "start"
    /\ words = <<>>
    /\ lines = <<>>

\* draw_centered_wrapped_text up to the lines it draws (the pixel positions
\* of the lines are not modelled)
WrapText ==
    /\ wrap_pc = "start"
    /\ words' = WrapWords(Split(wrap_text), max_width)
    /\ lines' = WrapLines(words', max_width)
    /\ wrap_pc' = "done"
    /\ UNCHANGED <<wrap_text, max_width, notWrap>>

NextWrap == WrapText

SpecWrap == InitWrap /\ [][NextWrap]_vars

----------------------------------------------------------------------------
(* Claims on the word wrap *)

\* the texts of ss joined with single spaces
RECURSIVE JoinSp(_)
JoinSp(ss) ==
    IF ss = <<>> THEN <<>>
    ELSE IF Len(ss) = 1 THEN ss[1]
    ELSE ss[1] \o <<" ">> \o JoinSp(Tail(ss))

\* the texts of ss concatenated
RECURSIVE Concat(_)
Concat(ss) == IF ss = <<>> THEN <<>> ELSE ss[1] \o Concat(Tail(ss))

\* the tokens ts are the words ws in order, a word wider than the region
\* standing as one or more non-empty segments whose concatenation is the word
RECURSIVE Expands(_, _)
Expands(ws, ts) ==
    IF ws = <<>> THEN ts = <<>>
    ELSE IF TextWidth(ws[1]) <= max_width
            THEN ts # <<>> /\ ts[1] = ws[1] /\ Expands(Tail(ws), Tail(ts))
            ELSE \E n \in 1..Len(ts) :
                    /\ \A k \in 1..n : ts[k] # <<>>
                    /\ Concat(SubSeq(ts, 1, n)) = ws[1]
                    /\ Expands(Tail(ws), SubSeq(ts, n + 1, Len(ts)))

SomeWordTooWide == \E k \in 1..Len(Split(wrap_text)) : TextWidth(Split(wrap_text)[k]) > max_width

\* C9: the lines re-joined with single spaces are the whitespace-normalized
\* text, no word dropped, duplicated or reordered, except that a word wider
\* than the region stands as its break_word segments, which are non-empty and
\* whose concatenation in order is the word.
C9_WrapRoundTrip ==
    wrap_pc = "done" =>
        /\ Expands(Split(wrap_text), Split(JoinSp(lines)))
        /\ ~SomeWordTooWide => JoinSp(lines) = JoinSp(Split(wrap_text))
        /\ \A k \in 1..Len(Split(wrap_text)) :
              LET w == Split(wrap_text)[k] IN
              TextWidth(w) > max_width =>
                  /\ Concat(break_word(w, max_width)) = w
                  /\ \A j \in 1..Len(break_word(w, max_width)) :
                        break_word(w, max_width)[j] # <<>>

\* "im  mm" in a region of width 3: the second word, 4 wide, is broken into
\* two segments, and each of the three tokens gets a line
C9_Witness ==
    /\ wrap_pc = "done"
    /\ wrap_text = <<"i", "m", " ", " ", "m", "m">>
    /\ max_width = 3
    /\ words = <<(<<"i", "m">>), (<<"m">>), (<<"m">>)>>
    /\ lines = <<(<<"i", "m">>), (<<"m">>), (<<"m">>)>>

\* the text fits the region, or is one character that is wider than it
FitsOrLoneWideChar(t) ==
    TextWidth(t) <= max_width \/ (Len(t) = 1 /\ TextWidth(t) > max_width)

\* every segment fits (or is a lone too-wide character), is not empty, and
\* is the longest run that fits: the next character would not fit after it
LongestFittingRuns(segs) ==
    /\ \A j \in 1..Len(segs) : segs[j] # <<>> /\ FitsOrLoneWideChar(segs[j])
    /\ \A j \in 1..(Len(segs) - 1) :
          TextWidth(Append(segs[j], segs[j + 1][1])) > max_width

\* the text is empty or holds whitespace only
IsBlank(t) == \A i \in 1..Len(t) : t[i] = " "

\* C11: every line emitted by draw_centered_wrapped_text is at most as wide as
\* the region, but for a line that is a single character wider than the
\* region; the segments of break_word each fit (same exception) and each is
\* the longest run that fits; the wrap never fails, and emits no line for an
\* empty or whitespace-only text.
C11_LinesFit ==
    /\ wrap_pc = "start" => ENABLED WrapText
    /\ wrap_pc = "done" =>
          /\ \A k \in 1..Len(lines) : lines[k] # <<>> /\ FitsOrLoneWideChar(lines[k])
          /\ \A k \in 1..Len(Split(wrap_text)) :
                LongestFittingRuns(break_word(Split(wrap_text)[k], max_width))
          /\ IsBlank(wrap_text) <=> lines = <<>>

\* "imi" in a region of width 1: the segments i, m, i, each on a line of its
\* own, the line m being a single character wider than the region
C11_Witness ==
    /\ wrap_pc = "done"
    /\ wrap_text = <<"i", "m", "i">>
    /\ max_width = 1
    /\ words = <<(<<"i">>), (<<"m">>), (<<"i">>)>>
    /\ lines = words
    /\ TextWidth(lines[2]) > max_width

\* a whitespace-only text: no line
C11_WitnessBlank ==
    /\ wrap_pc = "done"
    /\ wrap_text = <<" ", " ">>
    /\ lines = <<>>

----------------------------------------------------------------------------
(* remove_green, src/app.py:340-348 *)

\* most pixels of a frame
MaxPixels == 2

\* a colour is <<R, G, B>>; the colours tried: the corners and the centre of
\* the colour cube, and the colours on each side of every threshold of the key
KeyColours ==
    {<<r, g, b>> : r \in {0, 255}, g \in {0, 255}, b \in {0, 255}}
    \cup {<<128, 128, 128>>,
          <<174, 255, 0>>, <<175, 255, 0>>,
          <<0, 255, 255>>, <<0, 250, 255>>,
          <<215, 255, 215>>, <<216, 255, 216>>,
          <<0, 40, 0>>, <<0, 39, 0>>}

Max2(a, b) == IF a >= b THEN a ELSE b
Min2(a, b) == IF a <= b THEN a ELSE b

\* n / d rounded to the nearest integer (d > 0, n >= 0)
RoundDiv(n, d) == (2 * n + d) \div (2 * d)

\* cv2.cvtColor(frame, cv2.COLOR_RGB2HSV) on 8-bit pixels: V = max, S and H
\* through the fixed-point tables sdiv_table[v] = round((255 << 12) / v) and
\* hdiv_table180[diff] = round((180 << 12) / (6 * diff)), H in 0..179
RGB2HSV(px) ==
    LET r == px[1]
        g == px[2]
        b == px[3]
        v == Max2(r, Max2(g, b))
        vmin == Min2(r, Min2(g, b))
        diff == v - vmin
        sdiv == IF v = 0 THEN 0 ELSE RoundDiv(255 * 4096, v)
        hdiv == IF diff = 0 THEN 0 ELSE RoundDiv(180 * 4096, 6 * diff)
        sat == (diff * sdiv + 2048) \div 4096
        h0 == IF v = r THEN g - b
              ELSE IF v = g THEN b - r + 2 * diff
              ELSE r - g + 4 * diff
        h1 == (h0 * hdiv + 2048) \div 4096
        hue == IF h1 < 0 THEN h1 + 180 ELSE h1
    IN  <<hue, sat, v>>

\* lower_green = [40, 40, 40], upper_green = [90, 255, 255]
lower_green == <<40, 40, 40>>
upper_green == <<90, 255, 255>>

\* cv2.inRange on one pixel: 255 iff every channel is within its bounds,
\* the bounds included
InRangeExclusive(hsv, lower, upper) ==
    IF \A c \in 1..3 : lower[c] < hsv[c] /\ hsv[c] < upper[c] THEN 255 ELSE 0
InRange(hsv, lower, upper) ==
    IF \A c \in 1..3 : lower[c] <= hsv[c] /\ hsv[c] <= upper[c] THEN 255 ELSE 0

\* remove_green(frame): hsv, mask, alpha and the RGBA frame with that alpha
remove_green(f) ==
    LET hsv == [i \in 1..Len(f) |-> RGB2HSV(f[i])]
        mask == [i \in 1..Len(f) |-> InRange(hsv[i], lower_green, upper_green)]
        alpha == [i \in 1..Len(f) |-> IF mask[i] = 255 THEN 0 ELSE 255]
        rgba == [i \in 1..Len(f) |-> <<f[i][1], f[i][2], f[i][3], 255>>]
    IN  [i \in 1..Len(f) |-> <<rgba[i][1], rgba[i][2], rgba[i][3], alpha[i]>>]

\* the colour channels of an RGBA frame
ColourChannels(f) == [i \in 1..Len(f) |-> <<f[i][1], f[i][2], f[i][3]>>]

InitKey ==
    /\ IdleSeq
    /\ IdleLay
    /\ IdleAns
    /\ IdleBlink
    /\ IdleFont
    /\ IdleWrap
    /\ frame \in SeqsUpTo(KeyColours, MaxPixels) \ {<<>>}
    /\ key_pc = "start"
    /\ frame_rgba = <<>>
    /\ rekeyed = <<>>

\* new_frame(t): the timer frame keyed
KeyFrame ==
    /\ key_pc = "start"
    /\ frame_rgba' = remove_green(frame)
    /\ key_pc' = "keyed"
    /\ UNCHANGED <<frame, rekeyed, notKey>>

\* remove_green applied to the colour channels of its own output
KeyAgain ==
    /\ key_pc = "keyed"
    /\ rekeyed' = remove_green(ColourChannels(frame_rgba))
    /\ key_pc' = "rekeyed"
    /\ UNCHANGED <<frame, frame_rgba, notKey>>

NextKey == KeyFrame \/ KeyAgain

SpecKey == InitKey /\ [][NextKey]_vars

----------------------------------------------------------------------------
(* Claims on remove_green *)

\* the pixel's hue is in [40,90], its saturation and its value in [40,255]
IsGreen(px) ==
    LET hsv == RGB2HSV(px) IN
    /\ 40 <= hsv[1] /\ hsv[1] <= 90
    /\ 40 <= hsv[2] /\ hsv[2] <= 255
    /\ 40 <= hsv[3] /\ hsv[3] <= 255

\* C10: remove_green returns the colour channels of the input unchanged and an
\* alpha that is, pixel by pixel, 0 iff the hue is in [40,90] and the
\* saturation and the value in [40,255], and 255 otherwise; the alpha depends
\* on the pixel's colour alone, and keying the colour channels of the output
\* again gives the same alpha mask.
C10_AlphaByColour ==
    /\ key_pc \in {"keyed", "rekeyed"} =>
          /\ Len(frame_rgba) = Len(frame)
          /\ \A i \in 1..Len(frame) :
                /\ <<frame_rgba[i][1], frame_rgba[i][2], frame_rgba[i][3]>> = frame[i]
                /\ frame_rgba[i][4] = (IF IsGreen(frame[i]) THEN 0 ELSE 255)
                /\ frame[i] = <<0, 255, 0>> => frame_rgba[i][4] = 0
                /\ frame[i] \in {<<255, 0, 0>>, <<0, 0, 255>>, <<0, 0, 0>>, <<255, 255, 255>>}
                      => frame_rgba[i][4] = 255
          /\ \A i, j \in 1..Len(frame) :
                frame[i] = frame[j] => frame_rgba[i][4] = frame_rgba[j][4]
    /\ key_pc = "rekeyed" =>
          /\ Len(rekeyed) = Len(frame_rgba)
          /\ \A i \in 1..Len(frame) : rekeyed[i][4] = frame_rgba[i][4]

\* a dark green pixel on the value threshold beside a red one, keyed twice
C10_Witness ==
    /\ key_pc = "rekeyed"
    /\ frame = <<(<<0, 40, 0>>), (<<255, 0, 0>>)>>
    /\ frame_rgba = <<(<<0, 40, 0, 0>>), (<<255, 0, 0, 255>>)>>
    /\ rekeyed = frame_rgba

----------------------------------------------------------------------------
(* concatenate_videoclips, src/app.py:148-154 *)

\* longest clip list given to concatenate_videoclips
MaxClips == 3

\* clip durations in half seconds (26 is the 13-second quiz clip)
ClipDurations == {1, 3, 26}

\* a clip as concatenate_videoclips sees it: its duration, its start in the
\* parent timeline and its end
NewClip(d) == [duration |-> d, start |-> 0, end |-> d]

\* clip.with_start(start): the clip moved to `start`, its end moved with it
with_start(clip, s) == [clip EXCEPT !.start = s, !.end = s + clip.duration]

\* start += clip.duration
NextStartReset(s, clip) == clip.duration
NextStart(s, clip) == s + clip.duration

InitSeq ==
    /\ IdleLay
    /\ IdleAns
    /\ IdleBlink
    /\ IdleFont
    /\ IdleWrap
    /\ IdleKey
    /\ clips \in SeqsUpTo({NewClip(d) : d \in ClipDurations}, MaxClips)
    /\ new_clips = <<>>
    /\ start = 0
    /\ seq_pc = "loop"
    /\ seq_result = "none"
    /\ seq_t = -1
    /\ seq_hit = {}

\* one iteration of `for clip in clips`
ConcatLoop ==
    /\ seq_pc = "loop"
    /\ Len(new_clips) < Len(clips)
    /\ LET clip == clips[Len(new_clips) + 1] IN
        /\ new_clips' = Append(new_clips, with_start(clip, start))
        /\ start' = NextStart(start, clip)
    /\ UNCHANGED <<clips, seq_pc, seq_result, seq_t, seq_hit, notSeq>>

\* return CompositeVideoClip(new_clips, size=clips[0].size).with_duration(start)
\* clips[0] of an empty list raises IndexError
ConcatReturn ==
    /\ seq_pc = "loop"
    /\ Len(new_clips) = Len(clips)
    /\ IF clips = <<>>
          THEN seq_pc' = "raised" /\ seq_result' = "IndexError"
          ELSE seq_pc' = "done" /\ seq_result' = "timeline"
    /\ UNCHANGED <<clips, new_clips, start, seq_t, seq_hit, notSeq>>

\* the merged timeline sampled at t: the clips playing at t, each with its
\* local time
SampleTimeline ==
    /\ seq_pc = "done"
    /\ \E t \in 0..(start - 1) :
        /\ seq_t' = t
        /\ seq_hit' = {<<k, t - new_clips[k].start>> :
                          k \in {j \in 1..Len(new_clips) : is_playing(new_clips[j], t)}}
    /\ seq_pc' = "sampled"
    /\ UNCHANGED <<clips, new_clips, start, seq_result, notSeq>>

NextSeq == ConcatLoop \/ ConcatReturn \/ SampleTimeline

SpecSeq == InitSeq /\ [][NextSeq]_vars

----------------------------------------------------------------------------
(* Claims on concatenate_videoclips *)

RECURSIVE SumDurations(_, _)
\* sum of the durations of the first n clips of cs
SumDurations(cs, n) == IF n = 0 THEN 0 ELSE SumDurations(cs, n - 1) + cs[n].duration

\* C1: for a non-empty list of clips with positive durations, clip k starts at
\* the sum of the durations of the clips before it, the timeline lasts the sum
\* of all durations, and every time t of [0, total) lies in exactly one clip's
\* interval and maps to local time t - start_k.
C1_BackToBack ==
    (seq_pc \in {"done", "sampled"} /\ clips # <<>>) =>
        /\ Len(new_clips) = Len(clips)
        /\ \A k \in 1..Len(clips) :
              /\ new_clips[k].start = SumDurations(clips, k - 1)
              /\ new_clips[k].duration = clips[k].duration
        /\ start = SumDurations(clips, Len(clips))
        /\ \A t \in 0..(start - 1) :
              Cardinality({k \in 1..Len(clips) :
                  new_clips[k].start <= t
                  /\ t < new_clips[k].start + new_clips[k].duration}) = 1
        /\ seq_pc = "sampled" =>
              \E k \in 1..Len(clips) :
                  /\ SumDurations(clips, k - 1) <= seq_t
                  /\ seq_t < SumDurations(clips, k)
                  /\ seq_hit = {<<k, seq_t - SumDurations(clips, k - 1)>>}

\* three 13-second clips sampled at t = 14.5 s: the second clip at 1.5 s
C1_Witness ==
    /\ seq_pc = "sampled"
    /\ Len(clips) = 3
    /\ \A k \in 1..3 : clips[k].duration = 26
    /\ start = 78
    /\ seq_t = 29
    /\ seq_hit = {<<2, 3>>}

\* C6: concatenating an empty list of clips fails with EmptyInputError, never
\* with another error and never with a zero-duration timeline.
C6_EmptyInputError ==
    (clips = <<>> /\ seq_pc # "loop") =>
        (seq_pc = "raised" /\ seq_result = "EmptyInputError")

====
